---------------------------- MODULE Spec2Model ----------------------------
(***************************************************************************)
(* Model of the interruption filter of livekit-agents                      *)
(* (voice/transcription/interruption_filter.py).                           *)
(*                                                                         *)
(* A Python str is a sequence of one-character strings.  A frozenset of    *)
(* str is a duplicate-free sequence: the order of the sequence is the      *)
(* iteration order of the frozenset, which the code observes in            *)
(* sorted(..., key=len, reverse=True) (a stable sort) and in its for       *)
(* loops; membership ignores the order.                                    *)
(***************************************************************************)
EXTENDS Integers, Sequences, FiniteSets, TLC

VARIABLES
    config,            \* InterruptionFilter._config
    pc,                \* position of the should_interrupt call in progress
    transcript,        \* argument transcript of the call
    agent_is_speaking, \* argument agent_is_speaking of the call
    normalized,        \* local normalized of should_interrupt
    remaining_words,   \* local remaining_words of _is_only_ignore_words
    idx,               \* position of the for loop over remaining_words
    result,            \* value returned by the call
    held,              \* configurations _config has held since the call began
    written,           \* configuration given to __init__ or the last update_config
    previous           \* the configuration the last update_config discarded, if any

vars == << config, pc, transcript, agent_is_speaking, normalized,
           remaining_words, idx, result, held, written, previous >>

Range(s) == { s[i] : i \in 1..Len(s) }

-----------------------------------------------------------------------------
(* Characters: the classes of Python's str methods and of the re module.   *)

LowerLetters ==
    << "a","b","c","d","e","f","g","h","i","j","k","l","m",
       "n","o","p","q","r","s","t","u","v","w","x","y","z" >>

UpperLetters ==
    << "A","B","C","D","E","F","G","H","I","J","K","L","M",
       "N","O","P","Q","R","S","T","U","V","W","X","Y","Z" >>

DigitChars == { "0","1","2","3","4","5","6","7","8","9" }

\* str.isspace(), the separator of str.split() and the class \s
SpaceChars == { " ", "\t", "\n" }

\* the class \w of re: alphanumeric or underscore
WordChars == Range(LowerLetters) \cup Range(UpperLetters) \cup DigitChars \cup { "_" }

IsSpaceChar(c) == c \in SpaceChars

IsWordChar(c) == c \in WordChars

\* the lower-case letter of each upper-case letter
ToLower ==
    [ c \in Range(UpperLetters) |->
        LowerLetters[CHOOSE i \in 1..Len(UpperLetters) : UpperLetters[i] = c] ]

\* str.lower() on one character
LowerChar(c) == IF c \in DOMAIN ToLower THEN ToLower[c] ELSE c

\* str.lower()
Lower(text) == [ i \in 1..Len(text) |-> LowerChar(text[i]) ]

RECURSIVE SplitFrom(_, _, _)
SplitFrom(text, i, cur) ==
    IF i > Len(text)
    THEN IF cur = <<>> THEN <<>> ELSE << cur >>
    ELSE IF IsSpaceChar(text[i])
         THEN IF cur = <<>>
              THEN SplitFrom(text, i + 1, <<>>)
              ELSE << cur >> \o SplitFrom(text, i + 1, <<>>)
         ELSE SplitFrom(text, i + 1, Append(cur, text[i]))

\* str.split() without arguments: the maximal runs of non-whitespace
Split(text) == SplitFrom(text, 1, <<>>)

RECURSIVE JoinFrom(_, _)
JoinFrom(words, i) ==
    IF i > Len(words) THEN <<>>
    ELSE IF i = Len(words) THEN words[i]
    ELSE words[i] \o << " " >> \o JoinFrom(words, i + 1)

\* " ".join(words)
Join(words) == JoinFrom(words, 1)

\* str.strip() without arguments
Strip(text) ==
    LET inside == { i \in 1..Len(text) : ~IsSpaceChar(text[i]) }
    IN  IF inside = {} THEN <<>>
        ELSE SubSeq(text, CHOOSE i \in inside : \A j \in inside : i <= j,
                          CHOOSE i \in inside : \A j \in inside : j <= i)

\* " " in keyword
HasSpace(entry) == \E i \in 1..Len(entry) : entry[i] = " "

\* the literal re.escape(entry) matches text at position i
MatchAt(text, entry, i) ==
    /\ i >= 1
    /\ i + Len(entry) - 1 <= Len(text)
    /\ \A j \in 1..Len(entry) : text[i + j - 1] = entry[j]

\* keyword in normalized_text
IsSubstring(entry, text) ==
    \E i \in 1..(Len(text) + 1) : MatchAt(text, entry, i)

\* \b of re at the gap before position i: exactly one neighbour is a \w
WordBoundary(text, i) ==
    LET before == i > 1 /\ i - 1 <= Len(text) /\ IsWordChar(text[i - 1])
        after  == i >= 1 /\ i <= Len(text) /\ IsWordChar(text[i])
    IN  before # after

\* r"\b" + re.escape(entry) + r"\b" matches text at position i
BoundedMatchAt(text, entry, i) ==
    /\ MatchAt(text, entry, i)
    /\ WordBoundary(text, i)
    /\ WordBoundary(text, i + Len(entry))

\* re.search(r"\b" + re.escape(entry) + r"\b", text)
SearchBounded(entry, text) ==
    \E i \in 1..(Len(text) + 1) : BoundedMatchAt(text, entry, i)

RECURSIVE SubBoundedFrom(_, _, _)
SubBoundedFrom(text, entry, i) ==
    IF i > Len(text) THEN <<>>
    ELSE IF Len(entry) > 0 /\ BoundedMatchAt(text, entry, i)
         THEN << " " >> \o SubBoundedFrom(text, entry, i + Len(entry))
         ELSE << text[i] >> \o SubBoundedFrom(text, entry, i + 1)

\* re.sub(r"\b" + re.escape(entry) + r"\b", " ", text): the leftmost
\* non-overlapping matches, each replaced by one space
SubBounded(text, entry) == SubBoundedFrom(text, entry, 1)

-----------------------------------------------------------------------------
(* Default data.                                                           *)

DEFAULT_IGNORE_WORDS ==
    << <<"y","e","a","h">>,
       <<"y","e","s">>,
       <<"y","e","p">>,
       <<"y","u","p">>,
       <<"y","a">>,
       <<"o","k">>,
       <<"o","k","a","y">>,
       <<"h","m","m">>,
       <<"h","m">>,
       <<"m","h","m">>,
       <<"u","h","-","h","u","h">>,
       <<"u","h"," ","h","u","h">>,
       <<"u","h","u","h">>,
       <<"r","i","g","h","t">>,
       <<"a","h","a">>,
       <<"a","h">>,
       <<"o","h">>,
       <<"i"," ","s","e","e">>,
       <<"s","u","r","e">>,
       <<"g","o","t"," ","i","t">>,
       <<"g","o","t","c","h","a">>,
       <<"a","l","r","i","g","h","t">>,
       <<"c","o","o","l">>,
       <<"n","i","c","e">>,
       <<"g","r","e","a","t">>,
       <<"g","o","o","d">>,
       <<"f","i","n","e">>,
       <<"t","r","u","e">>,
       <<"i","n","d","e","e","d">>,
       <<"a","b","s","o","l","u","t","e","l","y">>,
       <<"e","x","a","c","t","l","y">>,
       <<"c","e","r","t","a","i","n","l","y">>,
       <<"d","e","f","i","n","i","t","e","l","y">>,
       <<"o","f"," ","c","o","u","r","s","e">>,
       <<"m","m">>,
       <<"m","m","m">>,
       <<"m","m","h","m","m">>,
       <<"m","m","-","h","m","m">> >>

DEFAULT_INTERRUPT_KEYWORDS ==
    << <<"s","t","o","p">>,
       <<"w","a","i","t">>,
       <<"h","o","l","d"," ","o","n">>,
       <<"h","o","l","d"," ","u","p">>,
       <<"p","a","u","s","e">>,
       <<"n","o">>,
       <<"n","o","p","e">>,
       <<"a","c","t","u","a","l","l","y">>,
       <<"b","u","t">>,
       <<"h","o","w","e","v","e","r">>,
       <<"e","x","c","u","s","e"," ","m","e">>,
       <<"s","o","r","r","y">>,
       <<"h","a","n","g"," ","o","n">>,
       <<"o","n","e"," ","m","o","m","e","n","t">>,
       <<"o","n","e"," ","s","e","c","o","n","d">>,
       <<"j","u","s","t"," ","a"," ","m","o","m","e","n","t">>,
       <<"j","u","s","t"," ","a"," ","s","e","c","o","n","d">>,
       <<"l","e","t"," ","m","e">>,
       <<"i"," ","h","a","v","e">>,
       <<"i"," ","n","e","e","d">>,
       <<"i"," ","w","a","n","t">>,
       <<"c","a","n"," ","y","o","u">>,
       <<"c","o","u","l","d"," ","y","o","u">>,
       <<"w","o","u","l","d"," ","y","o","u">>,
       <<"w","h","a","t"," ","a","b","o","u","t">>,
       <<"w","h","a","t"," ","i","f">>,
       <<"h","o","w"," ","a","b","o","u","t">>,
       <<"l","i","s","t","e","n">>,
       <<"h","e","y">>,
       <<"h","e","l","l","o">>,
       <<"h","i">>,
       <<"q","u","e","s","t","i","o","n">>,
       <<"w","a","i","t"," ","a"," ","m","i","n","u","t","e">>,
       <<"w","a","i","t"," ","a"," ","s","e","c","o","n","d">>,
       <<"n","o","t">>,
       <<"n","e","v","e","r">>,
       <<"d","o","n","'","t">>,
       <<"c","a","n","'","t">>,
       <<"w","o","n","'","t">> >>

-----------------------------------------------------------------------------
(* InterruptionFilterConfig and the methods of InterruptionFilter.         *)

\* InterruptionFilterConfig(ignore_words, interrupt_keywords, enabled)
InterruptionFilterConfig(ignore, keywords, en) ==
    [ ignore_words |-> ignore, interrupt_keywords |-> keywords, enabled |-> en ]

\* InterruptionFilterConfig()
DefaultConfig ==
    InterruptionFilterConfig(DEFAULT_IGNORE_WORDS, DEFAULT_INTERRUPT_KEYWORDS, TRUE)

\* _normalize_text without lower(): " ".join(text.split())
NormalizeTextKeepCase(text) == Join(Split(text))

\* _normalize_text: " ".join(text.lower().split())
NormalizeText(text) == Join(Split(Lower(text)))

\* not transcript or not transcript.strip()
IsBlank(text) == text = <<>> \/ Strip(text) = <<>>

\* the loop body with every keyword tested by "keyword in normalized_text"
KeywordMatchesSubstring(keyword, normalized_text) ==
    IsSubstring(keyword, normalized_text)

\* the loop body with "keyword == normalized_text"
KeywordMatchesWholeText(keyword, normalized_text) ==
    keyword = normalized_text

\* one iteration of the loop of _contains_interrupt_keyword
KeywordMatches(keyword, normalized_text) ==
    IF HasSpace(keyword)
    THEN IsSubstring(keyword, normalized_text)
    ELSE SearchBounded(keyword, normalized_text)

RECURSIVE ContainsFrom(_, _, _)
ContainsFrom(keywords, normalized_text, i) ==
    IF i > Len(keywords) THEN FALSE
    ELSE IF KeywordMatches(keywords[i], normalized_text) THEN TRUE
    ELSE ContainsFrom(keywords, normalized_text, i + 1)

\* _contains_interrupt_keyword over the keywords in iteration order
ContainsInterruptKeyword(keywords, normalized_text) ==
    ContainsFrom(keywords, normalized_text, 1)

RECURSIVE InsertByLen(_, _)
InsertByLen(sorted, w) ==
    IF sorted = <<>> THEN << w >>
    ELSE IF Len(Head(sorted)) >= Len(w)
         THEN << Head(sorted) >> \o InsertByLen(Tail(sorted), w)
         ELSE << w >> \o sorted

RECURSIVE SortByLenFrom(_, _)
SortByLenFrom(ws, i) ==
    IF i = 0 THEN <<>> ELSE InsertByLen(SortByLenFrom(ws, i - 1), ws[i])

\* sorted([w for w in ignore_words if " " in w], key=len, reverse=True):
\* longest first, entries of equal length in iteration order
PhrasePatterns(ignore) ==
    LET phrases == SelectSeq(ignore, HasSpace)
    IN  SortByLenFrom(phrases, Len(phrases))

RECURSIVE RemovePhrasesFrom(_, _, _)
RemovePhrasesFrom(remaining, phrases, i) ==
    IF i > Len(phrases) THEN remaining
    ELSE RemovePhrasesFrom(SubBounded(remaining, phrases[i]), phrases, i + 1)

\* the loop "for phrase in phrase_patterns" of _is_only_ignore_words
RemovePhrases(ignore, normalized_text) ==
    RemovePhrasesFrom(normalized_text, PhrasePatterns(ignore), 1)

\* remaining.split()[1:]
RemainingWordsSkipFirst(ignore, normalized_text) ==
    LET words == Split(RemovePhrases(ignore, normalized_text))
    IN  IF words = <<>> THEN <<>> ELSE Tail(words)

\* remaining_words = remaining.split()
RemainingWords(ignore, normalized_text) ==
    Split(RemovePhrases(ignore, normalized_text))

\* the characters re.sub(r"[^\w\s-]", "", word) keeps
KeptByClean(c) == IsWordChar(c) \/ IsSpaceChar(c) \/ c = "-"

\* punctuation removed from the two ends of word only
CleanWordEdges(word) ==
    LET kept == { i \in 1..Len(word) : KeptByClean(word[i]) }
    IN  IF kept = {} THEN <<>>
        ELSE Strip(SubSeq(word, CHOOSE i \in kept : \A j \in kept : i <= j,
                                CHOOSE i \in kept : \A j \in kept : j <= i))

\* re.sub(r"[^\w\s]", "", word).strip(): the hyphen removed as well
CleanWordNoHyphen(word) ==
    Strip(SelectSeq(word, LAMBDA c : IsWordChar(c) \/ IsSpaceChar(c)))

\* re.sub(r"[^\w\s-]", "", word).strip()
CleanWord(word) == Strip(SelectSeq(word, KeptByClean))

\* the test of the loop body with "in" for "not in"
WordRejectedIfListed(ignore, word) ==
    LET clean_word == CleanWord(word)
    IN  clean_word # <<>> /\ clean_word \in Range(ignore)

\* the test of the loop body: clean_word and clean_word not in ignore_words
WordRejected(ignore, word) ==
    LET clean_word == CleanWord(word)
    IN  clean_word # <<>> /\ clean_word \notin Range(ignore)

\* _is_only_ignore_words
IsOnlyIgnoreWords(ignore, normalized_text) ==
    LET words == RemainingWords(ignore, normalized_text)
    IN  \A i \in 1..Len(words) : ~WordRejected(ignore, words[i])

\* lines 188-196 with the test of the transcript moved to the front
EntryDecisionBlankFirst(cfg, text, speaking) ==
    IF IsBlank(text) THEN "ignore"
    ELSE IF ~cfg.enabled THEN "interrupt"
    ELSE IF ~speaking THEN "interrupt"
    ELSE "continue"

\* lines 188-196 with "return True" at line 196
EntryDecisionBlankInterrupts(cfg, text, speaking) ==
    IF ~cfg.enabled THEN "interrupt"
    ELSE IF ~speaking THEN "interrupt"
    ELSE IF IsBlank(text) THEN "interrupt"
    ELSE "continue"

\* lines 188-196 of should_interrupt: the returns taken before the text is
\* normalized ("interrupt": return True, "ignore": return False)
EntryDecision(cfg, text, speaking) ==
    IF ~cfg.enabled THEN "interrupt"
    ELSE IF ~speaking THEN "interrupt"
    ELSE IF IsBlank(text) THEN "ignore"
    ELSE "continue"

\* should_interrupt run to completion against one configuration
ShouldInterrupt(cfg, text, speaking) ==
    IF EntryDecision(cfg, text, speaking) # "continue"
    THEN EntryDecision(cfg, text, speaking) = "interrupt"
    ELSE IF ContainsInterruptKeyword(cfg.interrupt_keywords, NormalizeText(text)) THEN TRUE
    ELSE IF IsOnlyIgnoreWords(cfg.ignore_words, NormalizeText(text)) THEN FALSE
    ELSE TRUE

-----------------------------------------------------------------------------
(* Inputs of the model.                                                    *)

\* longest transcript, in pieces, that a caller passes
MaxPieces == 3

\* most default ignore entries joined into one transcript under SpecDefault
MaxJoin == 2

\* most entries added to an ignore list when it is enlarged
MaxAdded == 1

Ok == <<"o","k">>
OkUpper == <<"O","K">>
OkDotted == <<"o",".","k">>
Sure == <<"s","u","r","e">>
No == <<"n","o">>
Know == <<"k","n","o","w">>
ISee == <<"i"," ","s","e","e">>
HoldOn == <<"h","o","l","d"," ","o","n">>
ThresholdOnly == <<"t","h","r","e","s","h","o","l","d"," ","o","n","l","y">>
OkOk == <<"o","k","-","o","k">>
You == <<"y","o","u">>
SeeYou == <<"s","e","e"," ","y","o","u">>
UhHyphenHuh == <<"u","h","-","h","u","h">>
UhHuh == <<"u","h"," ","h","u","h">>
HuhOk == <<"h","u","h"," ","o","k">>

RECURSIVE Concat(_)
Concat(ps) == IF ps = <<>> THEN <<>> ELSE Head(ps) \o Concat(Tail(ps))

\* the strings made of at most n of the given pieces
Texts(pieces, n) ==
    { Concat(ps) : ps \in UNION { [1..k -> pieces] : k \in 0..n } }

\* configurations a caller constructs or installs under Spec
Configs ==
    { InterruptionFilterConfig(<< Ok >>, << No >>, TRUE),
      InterruptionFilterConfig(<< Sure, ISee >>, << HoldOn >>, TRUE),
      InterruptionFilterConfig(<< Ok, Sure >>, << No >>, FALSE) }

\* transcripts a caller passes under Spec
Transcripts == Texts({ Ok, Sure, No, << " " >> }, MaxPieces)

\* configurations a caller constructs under SpecSeq
SeqConfigs ==
    { InterruptionFilterConfig(<< Ok, Know, ISee >>, << No, HoldOn >>, TRUE),
      InterruptionFilterConfig(<< ISee, OkOk, No, Ok >>, << HoldOn, No >>, TRUE),
      InterruptionFilterConfig(<< Ok, Know, ISee >>, << No, HoldOn >>, FALSE) }

\* transcripts a caller passes under SpecSeq: words in either letter case,
\* whitespace, punctuation and hyphens
SeqTranscripts ==
    Texts({ Ok, OkUpper, OkDotted, No, Know, ISee, HoldOn, ThresholdOnly,
            << " " >>, << "\t" >>, << "." >>, << "-" >> }, MaxPieces)

\* transcripts a caller passes under SpecDefault: one to MaxJoin default
\* ignore entries joined by single spaces
AckTranscripts ==
    { Join(es) : es \in UNION { [1..k -> Range(DEFAULT_IGNORE_WORDS)] : k \in 1..MaxJoin } }

-----------------------------------------------------------------------------
(* The filter as a state machine.  should_interrupt reads self._config at  *)
(* lines 188, 221, 248 and 266; one action runs from one read to the next, *)
(* so that update_config of another thread falls between two reads.        *)

NoText == <<>>

\* __init__(config): the filter holds config and no call is in progress
InitWith(cfgs) ==
    /\ config \in cfgs
    /\ written = config
    /\ previous = {}
    /\ pc = "idle"
    /\ transcript = NoText
    /\ agent_is_speaking = FALSE
    /\ normalized = NoText
    /\ remaining_words = <<>>
    /\ idx = 0
    /\ result = TRUE
    /\ held = {}

Init == InitWith(Configs)

InCall == pc \in { "entry", "keywords", "phrases", "words" }

\* a caller enters should_interrupt(t, agent_is_speaking=s), t among texts
Call(texts) ==
    /\ pc = "idle"
    /\ pc' = "entry"
    /\ transcript' \in texts
    /\ agent_is_speaking' \in BOOLEAN
    /\ held' = { config }
    /\ UNCHANGED << config, written, previous, normalized, remaining_words,
                    idx, result >>

\* return value
Return(value) ==
    /\ pc' = "done"
    /\ result' = value

\* lines 188-199: the enabled flag is read, the arguments are examined and
\* the transcript is normalized
Entry ==
    /\ pc = "entry"
    /\ LET decision == EntryDecision(config, transcript, agent_is_speaking)
       IN  IF decision = "continue"
           THEN /\ normalized' = NormalizeText(transcript)
                /\ pc' = "keywords"
                /\ UNCHANGED result
           ELSE /\ Return(decision = "interrupt")
                /\ UNCHANGED normalized
    /\ UNCHANGED << config, written, previous, transcript, agent_is_speaking,
                    remaining_words, idx, held >>

\* lines 202-203: _contains_interrupt_keyword reads interrupt_keywords
Keywords ==
    /\ pc = "keywords"
    /\ IF ContainsInterruptKeyword(config.interrupt_keywords, normalized)
       THEN Return(TRUE)
       ELSE pc' = "phrases" /\ UNCHANGED result
    /\ UNCHANGED << config, written, previous, transcript, agent_is_speaking,
                    normalized, remaining_words, idx, held >>

\* lines 243-261: _is_only_ignore_words reads ignore_words for the phrases
Phrases ==
    /\ pc = "phrases"
    /\ remaining_words' = RemainingWords(config.ignore_words, normalized)
    /\ IF remaining_words' = <<>>
       THEN Return(FALSE) /\ UNCHANGED idx
       ELSE pc' = "words" /\ idx' = 1 /\ UNCHANGED result
    /\ UNCHANGED << config, written, previous, transcript, agent_is_speaking,
                    normalized, held >>

\* lines 263-269: each iteration of the loop reads ignore_words again
Word ==
    /\ pc = "words"
    /\ IF WordRejected(config.ignore_words, remaining_words[idx])
       THEN Return(TRUE) /\ UNCHANGED idx
       ELSE IF idx = Len(remaining_words)
            THEN Return(FALSE) /\ UNCHANGED idx
            ELSE idx' = idx + 1 /\ UNCHANGED << pc, result >>
    /\ UNCHANGED << config, written, previous, transcript, agent_is_speaking,
                    normalized, remaining_words, held >>

\* the caller has taken the returned value; the locals of the call are gone
Finish ==
    /\ pc = "done"
    /\ pc' = "idle"
    /\ transcript' = NoText
    /\ agent_is_speaking' = FALSE
    /\ normalized' = NoText
    /\ remaining_words' = <<>>
    /\ idx' = 0
    /\ result' = TRUE
    /\ held' = {}
    /\ UNCHANGED << config, written, previous >>

\* update_config(c) that adds the entries of c to the held configuration
UpdateConfigMerge(c) ==
    /\ config' = InterruptionFilterConfig(
                     config.ignore_words \o SelectSeq(c.ignore_words,
                         LAMBDA w : w \notin Range(config.ignore_words)),
                     config.interrupt_keywords \o SelectSeq(c.interrupt_keywords,
                         LAMBDA w : w \notin Range(config.interrupt_keywords)),
                     c.enabled)
    /\ written' = c
    /\ previous' = { config }
    /\ held' = IF InCall THEN held \cup { config' } ELSE held
    /\ UNCHANGED << pc, transcript, agent_is_speaking, normalized,
                    remaining_words, idx, result >>

\* update_config(c), from any thread
UpdateConfig(c) ==
    /\ config' = c
    /\ written' = c
    /\ previous' = { config }
    /\ held' = IF InCall THEN held \cup { c } ELSE held
    /\ UNCHANGED << pc, transcript, agent_is_speaking, normalized,
                    remaining_words, idx, result >>

\* threads calling should_interrupt and update_config on one filter
Next ==
    \/ Call(Transcripts)
    \/ Entry
    \/ Keywords
    \/ Phrases
    \/ Word
    \/ Finish
    \/ \E c \in Configs : UpdateConfig(c)

Spec == Init /\ [][Next]_vars

\* one caller and no update_config: every call runs against the
\* configuration the filter was constructed with
InitSeq == InitWith(SeqConfigs)

NextSeq ==
    \/ Call(SeqTranscripts)
    \/ Entry
    \/ Keywords
    \/ Phrases
    \/ Word
    \/ Finish

SpecSeq == InitSeq /\ [][NextSeq]_vars

\* one caller of the default filter
InitDefault == InitWith({ DefaultConfig })

NextDefault ==
    \/ Call(AckTranscripts)
    \/ Entry
    \/ Keywords
    \/ Phrases
    \/ Word
    \/ Finish

SpecDefault == InitDefault /\ [][NextDefault]_vars

\* configurations whose ignore list is enlarged: words with a phrase, a
\* hyphenated word, and two phrases of one length that overlap in "uh huh ok"
GrowConfigs ==
    { InterruptionFilterConfig(<< ISee, You >>, << No >>, TRUE),
      InterruptionFilterConfig(<< UhHyphenHuh, Ok >>, << No >>, TRUE),
      InterruptionFilterConfig(<< UhHuh, HuhOk, Ok >>, << No >>, TRUE) }

\* transcripts a caller passes under SpecGrow
GrowTranscripts ==
    Texts({ ISee, You, UhHyphenHuh, UhHuh, Ok, Sure, << " " >> }, MaxPieces)

\* entries an enlarged ignore list adds: phrases and single words
Additions == { SeeYou, HuhOk, Sure, No }

\* the iteration orders a frozenset of the given entries can have
Orders(entries) ==
    { o \in [1..Cardinality(entries) -> entries] :
        \A i, j \in 1..Cardinality(entries) : o[i] = o[j] => i = j }

\* the configurations whose ignore_words hold the entries of cfg and at
\* most MaxAdded entries more, in any iteration order
Enlarged(cfg) ==
    { InterruptionFilterConfig(o, cfg.interrupt_keywords, cfg.enabled) :
        o \in UNION { Orders(Range(cfg.ignore_words) \cup added) :
                        added \in { a \in SUBSET Additions :
                                      Cardinality(a) <= MaxAdded } } }

\* one caller of a filter whose ignore list is to be enlarged
InitGrow == InitWith(GrowConfigs)

NextGrow ==
    \/ Call(GrowTranscripts)
    \/ Entry
    \/ Keywords
    \/ Phrases
    \/ Word
    \/ Finish

SpecGrow == InitGrow /\ [][NextGrow]_vars

-----------------------------------------------------------------------------
(* Properties.  A call has returned when pc = "done"; its arguments, its   *)
(* locals and its returned value are then still in the state.              *)

Returned == pc = "done"

\* the call in the state ran with the filter enabled and the agent speaking
Filtering == Returned /\ config.enabled /\ agent_is_speaking

\* text holds nothing but whitespace (the empty text included)
OnlyWhitespace(text) == \A i \in 1..Len(text) : text[i] \in SpaceChars

\* keyword is found in text the way the specification words it: a keyword
\* with a space anywhere as a substring, another keyword only where the
\* characters next to the occurrence are not word characters
KeywordOccurs(keyword, text) ==
    \E i \in 1..Len(text) :
        /\ MatchAt(text, keyword, i)
        /\ \/ HasSpace(keyword)
           \/ /\ i = 1 \/ ~IsWordChar(text[i - 1])
              /\ i + Len(keyword) > Len(text) \/ ~IsWordChar(text[i + Len(keyword)])

SomeKeywordOccurs(cfg, text) ==
    \E k \in Range(cfg.interrupt_keywords) : KeywordOccurs(k, text)

\* C1: a call returns True whenever the held configuration is disabled or
\* the agent is not speaking, whatever the transcript; False is returned
\* only by an enabled filter while the agent speaks.
C1_TrueWhenDisabledOrSilent ==
    Returned /\ (~config.enabled \/ ~agent_is_speaking) => result = TRUE

\* a disabled filter has returned True for a whitespace-only transcript
\* while the agent speaks
C1_Witness ==
    /\ Returned
    /\ ~config.enabled
    /\ agent_is_speaking
    /\ transcript = << " ", "\t" >>
    /\ result = TRUE

\* C2: a call that runs while update_config is called returns what the
\* decision algorithm gives for its arguments under one of the
\* configurations the filter held during the call.
C2_OneConfigurationPerCall ==
    Returned =>
        \E c \in held : result = ShouldInterrupt(c, transcript, agent_is_speaking)

\* C3: with the filter enabled and the agent speaking, a transcript whose
\* normalized text contains a configured interrupt keyword returns True,
\* also when the ignore list accounts for the whole transcript.
C3_KeywordTakesPrecedence ==
    Filtering /\ SomeKeywordOccurs(config, NormalizeText(transcript))
        => result = TRUE

\* "ok no" has returned True under a configuration that lists "no" as a
\* keyword and both words as ignore words
C3_Witness ==
    /\ Filtering
    /\ transcript = Ok \o << " " >> \o No
    /\ No \in Range(config.interrupt_keywords)
    /\ IsOnlyIgnoreWords(config.ignore_words, normalized)
    /\ result = TRUE

\* C4: under the default configuration with the agent speaking, a
\* transcript that joins default ignore entries by single spaces returns
\* False.
C4_DefaultEntriesAreIgnored ==
    /\ Returned
    /\ config = DefaultConfig
    /\ agent_is_speaking
    /\ transcript \in AckTranscripts
    => result = FALSE

\* "uh-huh i see mm-hmm"-like join: a hyphenated entry followed by a
\* phrase has returned False
C4_Witness ==
    /\ Returned
    /\ config = DefaultConfig
    /\ agent_is_speaking
    /\ transcript = Join(<< DEFAULT_IGNORE_WORDS[11], DEFAULT_IGNORE_WORDS[18] >>)
    /\ HasSpace(DEFAULT_IGNORE_WORDS[18])
    /\ result = FALSE

\* text is one or more words of letters separated by single spaces
PlainWords(text) ==
    /\ text # <<>>
    /\ \A i \in 1..Len(text) :
          \/ text[i] \in Range(LowerLetters) \cup Range(UpperLetters)
          \/ text[i] = " " /\ 1 < i /\ i < Len(text) /\ text[i + 1] # " "

\* word i of words lies in an occurrence of a multi-word ignore entry
InPhraseOccurrence(ignore, words, i) ==
    \E p \in { e \in Range(ignore) : HasSpace(e) } :
        \E j \in 1..Len(words) :
            /\ j <= i
            /\ i < j + Len(Split(p))
            /\ j + Len(Split(p)) - 1 <= Len(words)
            /\ SubSeq(words, j, j + Len(Split(p)) - 1) = Split(p)

\* some word of text is no ignore entry and lies in no occurrence of a
\* multi-word ignore entry
HasSubstantiveWord(ignore, text) ==
    LET words == Split(Lower(text))
    IN  \E i \in 1..Len(words) :
            /\ words[i] \notin Range(ignore)
            /\ ~InPhraseOccurrence(ignore, words, i)

\* C5: with the filter enabled and the agent speaking, a transcript of
\* space-separated plain words with a word that is no ignore entry and
\* lies in no occurrence of an ignore phrase returns True.
C5_SubstantiveWordInterrupts ==
    /\ Filtering
    /\ PlainWords(transcript)
    /\ HasSubstantiveWord(config.ignore_words, transcript)
    => result = TRUE

\* "ok know" has returned True where "know" is neither ignore entry nor
\* keyword and no keyword is in the transcript
C5_Witness ==
    /\ Filtering
    /\ transcript = Ok \o << " " >> \o Know
    /\ Know \notin Range(config.ignore_words)
    /\ ~SomeKeywordOccurs(config, transcript)
    /\ result = TRUE

\* C6: with the filter enabled and the agent speaking, an empty or
\* whitespace-only transcript returns False.
C6_BlankIsIgnored ==
    Filtering /\ OnlyWhitespace(transcript) => result = FALSE

\* a transcript of a tab and spaces has returned False
C6_Witness ==
    /\ Filtering
    /\ transcript = << "\t", " ", " " >>
    /\ result = FALSE

\* C7: update_config replaces the held configuration whole: the getter
\* returns the configuration written last, a call that starts after that
\* write is decided by that configuration alone, and a keyword of that
\* configuration makes a transcript containing it return True.
C7_UpdateReplaces ==
    /\ config = written
    /\ Returned /\ held = { written }
       => /\ result = ShouldInterrupt(written, transcript, agent_is_speaking)
          /\ written.enabled /\ agent_is_speaking
               /\ SomeKeywordOccurs(written, NormalizeText(transcript))
             => result = TRUE

\* a call that began after an update_config has returned what the new
\* configuration gives where the discarded configuration gives the opposite
C7_Witness ==
    /\ Returned
    /\ held = { written }
    /\ written.enabled /\ agent_is_speaking
    /\ result = ShouldInterrupt(written, transcript, agent_is_speaking)
    /\ \E old \in previous :
          /\ old.enabled
          /\ result # ShouldInterrupt(old, transcript, agent_is_speaking)

\* str.upper() on one character
UpperChar(c) ==
    IF c \in Range(LowerLetters)
    THEN UpperLetters[CHOOSE i \in 1..Len(LowerLetters) : LowerLetters[i] = c]
    ELSE c

\* text with every letter upper-cased
UpperAll(text) == [ i \in 1..Len(text) |-> UpperChar(text[i]) ]

\* text with every second character upper-cased
UpperAlternate(text) ==
    [ i \in 1..Len(text) |-> IF i % 2 = 1 THEN UpperChar(text[i]) ELSE text[i] ]

\* the positions of text that hold a single space between two other characters
SingleSpaces(text) ==
    { i \in 2..(Len(text) - 1) :
        text[i] = " " /\ text[i - 1] \notin SpaceChars /\ text[i + 1] \notin SpaceChars }

\* text with run put in the place of the character at position i
Widened(text, i, run) ==
    SubSeq(text, 1, i - 1) \o run \o SubSeq(text, i + 1, Len(text))

\* text in other letter case and other whitespace layout
Relayouts(text) ==
    { UpperAll(text), UpperAlternate(text), Lower(text),
      << " " >> \o text, << "\t", " " >> \o text, text \o << " ", "\n" >> }
    \cup { Widened(text, i, << " ", " " >>) : i \in SingleSpaces(text) }
    \cup { Widened(text, i, << "\t", " ", "\n" >>) : i \in SingleSpaces(text) }

\* every entry of the configuration is lower-case
LowerCaseEntries(cfg) ==
    \A e \in Range(cfg.ignore_words) \cup Range(cfg.interrupt_keywords) :
        Lower(e) = e

\* C8: for a configuration of lower-case entries and the agent speaking,
\* the returned value is the one the decision gives for the transcript with
\* letters upper-cased, with whitespace added in front or behind, and with
\* a single space widened to a run of whitespace.
C8_CaseAndWhitespaceInvariant ==
    Filtering /\ LowerCaseEntries(config) =>
        \A other \in Relayouts(transcript) :
            ShouldInterrupt(config, other, TRUE) = result

\* "OK i see", partly in upper case, has returned False as "ok i see" does
C8_Witness ==
    /\ Filtering
    /\ LowerCaseEntries(config)
    /\ transcript = OkUpper \o << " " >> \o ISee
    /\ SingleSpaces(transcript) # {}
    /\ result = FALSE
    /\ ShouldInterrupt(config, Ok \o << " " >> \o ISee, TRUE) = FALSE

\* word without the characters that are neither alphanumeric, underscore,
\* whitespace nor hyphen, wherever they stand in it
WithoutPunctuation(word) ==
    SelectSeq(word, LAMBDA c : c \in WordChars \cup SpaceChars \cup { "-" })

\* word without such characters at its two ends, those inside kept
WithoutEdgePunctuation(word) ==
    LET kept == { i \in 1..Len(word) : word[i] \in WordChars \cup SpaceChars \cup { "-" } }
    IN  IF kept = {} THEN <<>>
        ELSE SubSeq(word, CHOOSE i \in kept : \A j \in kept : i <= j,
                          CHOOSE i \in kept : \A j \in kept : j <= i)

\* the call in the state was decided by the loop over remaining_words
DecidedByWords == Returned /\ idx > 0

\* C9 (as amended): the ignore-word check deletes punctuation at every
\* position of a remaining token, inside it as well: the call returns False
\* exactly when each token, all its punctuation deleted, is empty or an
\* ignore entry, so that "o.k" is accepted where "ok" is an ignore word.
C9_PunctuationDeletedEverywhere ==
    DecidedByWords =>
        ( result = FALSE
          <=> \A i \in 1..Len(remaining_words) :
                 \/ WithoutPunctuation(remaining_words[i]) = <<>>
                 \/ WithoutPunctuation(remaining_words[i]) \in Range(config.ignore_words) )

\* "o.k" has returned False where "ok" is an ignore word and "o.k" is none
C9_Witness ==
    /\ Filtering
    /\ DecidedByWords
    /\ transcript = OkDotted
    /\ Ok \in Range(config.ignore_words)
    /\ OkDotted \notin Range(config.ignore_words)
    /\ result = FALSE

\* C9 (as stated): punctuation is stripped from the edges of a remaining
\* token only, so that a token with punctuation between its letters is
\* compared with that punctuation kept and the transcript returns True.
C9_PunctuationStrippedAtEdgesOnly ==
    DecidedByWords =>
        ( result = FALSE
          <=> \A i \in 1..Len(remaining_words) :
                 \/ WithoutEdgePunctuation(remaining_words[i]) = <<>>
                 \/ WithoutEdgePunctuation(remaining_words[i]) \in Range(config.ignore_words) )

\* the call in the state returned from the keyword check
ReturnedAtKeywords == Returned /\ normalized # NoText /\ idx = 0 /\ result = TRUE

\* the call in the state has passed the keyword check without returning
PassedKeywords ==
    \/ pc \in { "phrases", "words" }
    \/ Returned /\ normalized # NoText /\ ~ReturnedAtKeywords

\* C10: the keyword check succeeds exactly when some configured keyword
\* matches, a keyword without a space only at word boundaries ("no" not in
\* "know"), a keyword with a space as a substring anywhere ("hold on" in
\* "threshold only"), in whatever order the keywords are iterated.
C10_KeywordMatchRule ==
    /\ ReturnedAtKeywords => SomeKeywordOccurs(config, normalized)
    /\ PassedKeywords => ~SomeKeywordOccurs(config, normalized)
    /\ ~KeywordOccurs(No, Know)
    /\ KeywordOccurs(HoldOn, ThresholdOnly)

\* "threshold only" has returned True at the keyword check for the keyword
\* "hold on", which is not the first keyword iterated
C10_Witness ==
    /\ Filtering
    /\ ReturnedAtKeywords
    /\ transcript = ThresholdOnly
    /\ config.interrupt_keywords = << No, HoldOn >>
    /\ ~KeywordOccurs(No, normalized)

-----------------------------------------------------------------------------
\* the call in the state was suppressed: it returned False
Suppressed == Filtering /\ result = FALSE

\* the multi-word entries of an ignore list, in its iteration order
PhraseEntries(ignore) == SelectSeq(ignore, HasSpace)

\* bigger adds single words only and iterates its phrases as cfg does
AddsWordsOnly(cfg, bigger) ==
    PhraseEntries(bigger.ignore_words) = PhraseEntries(cfg.ignore_words)

\* C11 (as amended): enlarging the ignore list with single words, the
\* phrases being iterated in the same order, never un-suppresses a
\* transcript: a call that returned False returns False for the same
\* transcript and keywords under every such enlarged list.
C11_AddedWordsKeepSuppression ==
    Suppressed =>
        \A bigger \in Enlarged(config) :
            AddsWordsOnly(config, bigger)
                => ~ShouldInterrupt(bigger, transcript, agent_is_speaking)

\* "i see you" has returned False under {"i see", "you"}, and "sure" can
\* be added to the list
C11_Witness ==
    /\ Suppressed
    /\ transcript = ISee \o << " " >> \o You
    /\ config.ignore_words = << ISee, You >>
    /\ \E bigger \in Enlarged(config) :
           /\ Sure \in Range(bigger.ignore_words)
           /\ AddsWordsOnly(config, bigger)
           /\ ~ShouldInterrupt(bigger, transcript, agent_is_speaking)

\* C11 (as stated): enlarging the ignore list, with single words or with
\* multi-word phrases, never un-suppresses a transcript: a call that
\* returned False returns False under every enlarged list.
C11_EnlargingKeepsSuppression ==
    Suppressed =>
        \A bigger \in Enlarged(config) :
            ~ShouldInterrupt(bigger, transcript, agent_is_speaking)

=============================================================================
